---- MODULE Spec2Model ----
(***************************************************************************)
(* Model of impeller/renderer/backend/gles/proc_table_gles.h:              *)
(* AutoErrorCheck, GLProc<T> and ProcTableGLES.                            *)
(*                                                                         *)
(* The header holds the whole of AutoErrorCheck and GLProc and the         *)
(* declarations of ProcTableGLES.  The bodies of the ProcTableGLES member  *)
(* functions live in proc_table_gles.cc, which is not part of the source   *)
(* tree at hand; they are modelled from the written specification and are  *)
(* marked as such where they are defined.                                  *)
(***************************************************************************)
EXTENDS Integers, Sequences, FiniteSets, TLC

VARIABLES
    resolver,      \* the Resolver handed to the constructor: the set of symbol names it maps to nullptr
    glGetError,    \* the error-query pointer the constructor binds (nullptr when none is bound)
    slots,         \* the GLProc members of the table, by member name
    is_valid_,     \* ProcTableGLES::is_valid_
    description_,  \* ProcTableGLES::description_
    pc,            \* where the table's life is: constructor phase, ready, fatal, crashed
    cursor,        \* constructor: index in ProcOrder of the next member to resolve
    op,            \* the table operation in progress and the slot calls it still has to make
    call,          \* the GLProc::operator() frame in flight (with its AutoErrorCheck local)
    gl_error,      \* the driver's error flag, read and cleared by the error query
    label,         \* the driver's resource state: the debug label last attached
    log,           \* the driver entry points invoked so far, in order
    executed,      \* what the driver executed last for the current operation: entry point, arguments received, value returned
    last,          \* the operation that completed last and what it returned (none while one is in progress)
    diagnostic     \* the fatal diagnostic of FML_CHECK

vars == << resolver, glGetError, slots, is_valid_, description_, pc, cursor,
           op, call, gl_error, label, log, executed, last, diagnostic >>

----------------------------------------------------------------------------
(* Bounds of the model.                                                    *)

\* Driver calls a behaviour may issue (the constructor's included).
MaxCalls == 3
\* Argument lists of a direct call through a slot are 0..MaxArg.
MaxArg == 1

----------------------------------------------------------------------------
(* Values.                                                                 *)

nullptr == "nullptr"

GL_NO_ERROR == 0
GL_INVALID_ENUM == 1280
GL_FRAMEBUFFER_COMPLETE == 36053
GL_FRAMEBUFFER_UNSUPPORTED == 36061

\* What the driver's error flag may hold; 7 is a code outside the known enumeration.
ErrorCodes == {GL_NO_ERROR, GL_INVALID_ENUM, 7}

\* enum class DebugResourceType
DebugResourceType == {"kTexture", "kBuffer", "kProgram", "kShader"}

Range(s) == {s[i] : i \in DOMAIN s}

\* FOR_EACH_IMPELLER_PROC, in declaration order.
CoreProcOrder ==
    << "ActiveTexture", "AttachShader", "BindAttribLocation", "BindBuffer",
       "BindTexture", "BlendEquationSeparate", "BlendFuncSeparate", "BufferData",
       "CheckFramebufferStatus", "Clear", "ClearColor", "ClearDepthf",
       "ClearStencil", "ColorMask", "CompileShader", "CreateProgram",
       "CreateShader", "CullFace", "DeleteBuffers", "DeleteProgram",
       "DeleteShader", "DeleteTextures", "DepthFunc", "DepthMask",
       "DepthRangef", "DetachShader", "Disable", "DisableVertexAttribArray",
       "DrawElements", "Enable", "EnableVertexAttribArray", "FrontFace",
       "GenBuffers", "GenTextures", "GetActiveUniform", "GetBooleanv",
       "GetFloatv", "GetFramebufferAttachmentParameteriv", "GetIntegerv",
       "GetProgramiv", "GetShaderInfoLog", "GetShaderiv", "GetString",
       "GetUniformLocation", "IsFramebuffer", "IsProgram", "LinkProgram",
       "Scissor", "ShaderBinary", "ShaderSource", "StencilFuncSeparate",
       "StencilMaskSeparate", "StencilOpSeparate", "TexImage2D",
       "TexParameteri", "Uniform1fv", "Uniform1i", "Uniform2fv", "Uniform4fv",
       "UniformMatrix4fv", "UseProgram", "VertexAttribPointer", "Viewport" >>

\* FOR_EACH_IMPELLER_EXT_PROC, in declaration order.
ExtProcOrder == << "PushDebugGroupKHR", "PopDebugGroupKHR", "ObjectLabelKHR" >>

CoreProcs == Range(CoreProcOrder)
ExtProcs == Range(ExtProcOrder)

\* The members of ProcTableGLES in declaration order: the core list, then the
\* extension list.
ProcOrder == CoreProcOrder \o ExtProcOrder
AllProcs == Range(ProcOrder)

\* "gl" #name
GLName(p) == "gl" \o p

----------------------------------------------------------------------------
(* GLProc<T>.                                                              *)

\* Faulty variant: the member's name without the "gl" prefix.
IMPELLER_PROC_Unprefixed(p) == [name |-> p, function |-> nullptr, error_fn |-> nullptr]
\* IMPELLER_PROC(name): GLProc<decltype(gl##name)> name = {"gl" #name, nullptr};
\* error_fn keeps its default member initializer.
IMPELLER_PROC(p) == [name |-> GLName(p), function |-> nullptr, error_fn |-> nullptr]

\* Faulty variant: availability read off the name instead of the pointer.
IsAvailableByName(proc) == proc.name /= nullptr
\* GLProc::IsAvailable
IsAvailable(proc) == proc.function /= nullptr

\* Faulty variant: a reset that forgets the error-query binding.
ResetKeepsErrorFn(proc) == [name |-> nullptr, function |-> nullptr, error_fn |-> proc.error_fn]
\* GLProc::Reset
Reset(proc) == [name |-> nullptr, function |-> nullptr, error_fn |-> nullptr]

----------------------------------------------------------------------------
(* AutoErrorCheck and the call operator's frame.                           *)

\* Faulty variants: a guard that loses the call's name, one that loses the
\* error query, one that queries whether or not a query was given.
AutoErrorCheckUnnamed(error, name) == [error_fn |-> error, name |-> nullptr]
AutoErrorCheckUnbound(error, name) == [error_fn |-> nullptr, name |-> name]
AutoErrorCheckAlways(error, name) == [error_fn |-> "glGetError", name |-> name]
\* AutoErrorCheck(PFNGLGETERRORPROC error, const char* name)
AutoErrorCheck(error, name) == [error_fn |-> error, name |-> name]

\* const char* GLErrorToString(GLenum value): declared in the header, defined
\* elsewhere; a name for each known code and a generic one for the rest.
GLErrorToString(value) ==
    CASE value = GL_NO_ERROR -> "GL_NO_ERROR"
      [] value = GL_INVALID_ENUM -> "GL_INVALID_ENUM"
      [] OTHER -> "Unknown"

NoDiagnostic == [string |-> "", code |-> GL_NO_ERROR, name |-> ""]
\* FML_CHECK(error == GL_NO_ERROR) << "GL Error " << GLErrorToString(error)
\*     << "(" << error << ")" << " encountered on call to " << name;
CheckMessage(error, name) == [string |-> GLErrorToString(error), code |-> error, name |-> name]

NoCall == [stage |-> "idle", proc |-> "", guard |-> AutoErrorCheck(nullptr, nullptr),
           args |-> 0, result |-> 0]
NoOp == [name |-> "none", proc |-> "", args |-> 0, todo |-> << >>, results |-> << >>]
NoLast == [op |-> "none", proc |-> "", args |-> 0, value |-> 0, calls |-> 0]
NoExecuted == [entry |-> nullptr, args |-> 0, result |-> 0]
NoLabel == [type |-> "", name |-> 0, label |-> ""]

\* The events of the log: a driver entry point invoked through a slot (and
\* whether that slot has an error query bound), and an error query.
FunctionEvent(proc) == [ev |-> "function", checked |-> proc.error_fn /= nullptr]
ErrorFnEvent == [ev |-> "error_fn", checked |-> TRUE]

\* Driver calls logged so far.
Calls(l) == Cardinality({i \in DOMAIN l : l[i].ev = "function"})

\* What a driver entry point may return.
DriverResults(entry) ==
    IF entry = "glCheckFramebufferStatus"
    THEN {GL_FRAMEBUFFER_COMPLETE, GL_FRAMEBUFFER_UNSUPPORTED}
    ELSE {0, 1}

----------------------------------------------------------------------------
(* The resolver.                                                           *)

\* using Resolver = std::function<void*(const char* function_name)>;
\* the address of a resolved symbol is written as the symbol's name.
Resolve(function_name) == IF function_name \in resolver THEN nullptr ELSE function_name

\* The resolvers a table is built with.  Core symbols: all of them resolve,
\* exactly one does not (each in turn), or none does.  Extension symbols: any
\* subset fails when the core resolves; all or none when it does not.
CoreFailures ==
    {{}} \cup {{GLName(p)} : p \in CoreProcs} \cup {{GLName(p) : p \in CoreProcs}}
Resolvers ==
    SUBSET {GLName(p) : p \in ExtProcs} \cup
    {c \cup e : c \in CoreFailures, e \in {{}, {GLName(p) : p \in ExtProcs}}}

\* bool is_valid_ = false;
DefaultIsValid == FALSE

\* Faulty variant: a description that exists before the constructor ran.
EagerDescription == << [has_debug_extension |-> FALSE] >>
\* std::unique_ptr<GLDescription> description_;  (empty: no description)
DefaultDescription == << >>

----------------------------------------------------------------------------
(* Initial state: the members at their default member initializers, the    *)
(* constructor about to run with its resolver.                             *)

Init ==
    /\ resolver \in Resolvers
    /\ glGetError \in {nullptr, "glGetError"}
    /\ slots = [p \in AllProcs |-> IMPELLER_PROC(p)]
    /\ is_valid_ = DefaultIsValid
    /\ description_ = DefaultDescription
    /\ pc = "ctor_resolve"
    /\ cursor = 1
    /\ op = NoOp
    /\ call = NoCall
    /\ gl_error = GL_NO_ERROR
    /\ label = NoLabel
    /\ log = << >>
    /\ executed = NoExecuted
    /\ last = NoLast
    /\ diagnostic = NoDiagnostic

----------------------------------------------------------------------------
(* ProcTableGLES::ProcTableGLES(Resolver resolver).                        *)

\* Step 2 of the construction protocol, one declared member at a time: the
\* resolver is asked for the member's name and its answer stored; core members
\* get the error query bound, extension members are left without one.
CtorResolve ==
    /\ pc = "ctor_resolve"
    /\ cursor <= Len(ProcOrder)
    /\ LET p == ProcOrder[cursor] IN
         slots' = [slots EXCEPT
                     ![p].function = Resolve(slots[p].name),
                     ![p].error_fn = IF p \in CoreProcs THEN glGetError ELSE @]
    /\ cursor' = cursor + 1
    /\ pc' = IF cursor = Len(ProcOrder) THEN "ctor_validity" ELSE pc
    /\ UNCHANGED << resolver, glGetError, is_valid_, description_, op, call,
                    gl_error, label, log, executed, last, diagnostic >>

\* Step 3: the validity flag.
CtorValidity ==
    /\ pc = "ctor_validity"
    /\ is_valid_' = (\A p \in CoreProcs : IsAvailable(slots[p]))
    /\ pc' = "ctor_description"
    /\ UNCHANGED << resolver, glGetError, slots, description_, cursor, op, call,
                    gl_error, label, log, executed, last, diagnostic >>

\* Step 4: if valid, the Driver Description is built by calls through the
\* resolved slots (the string queries, here one glGetString).
CtorDescription ==
    /\ pc = "ctor_description"
    /\ op = NoOp
    /\ IF is_valid_
       THEN /\ op' = [NoOp EXCEPT !.name = "GLDescription",
                                  !.todo = << [proc |-> "GetString", args |-> 0] >>]
            /\ pc' = pc
       ELSE /\ op' = op
            /\ pc' = "ready"
    /\ UNCHANGED << resolver, glGetError, slots, is_valid_, description_, cursor,
                    call, gl_error, label, log, executed, last, diagnostic >>

----------------------------------------------------------------------------
(* GLProc::operator() and ~AutoErrorCheck.                                 *)

\* std::forward<Args>(args)...
Forward(args) == args

\* operator(), first statement: AutoErrorCheck error(error_fn, name);
\* the slot called is the next one the operation in progress has to call.
Invoke ==
    /\ pc \in {"ctor_description", "ready"}
    /\ op.name /= "none"
    /\ op.todo /= << >>
    /\ call.stage = "idle"
    /\ LET next == Head(op.todo) IN
         call' = [stage |-> "guarded",
                  proc |-> next.proc,
                  guard |-> AutoErrorCheck(slots[next.proc].error_fn, slots[next.proc].name),
                  args |-> next.args,
                  result |-> 0]
    /\ UNCHANGED << resolver, glGetError, slots, is_valid_, description_, pc, cursor,
                    op, gl_error, label, log, executed, last, diagnostic >>

\* operator(), second statement: return function(std::forward<Args>(args)...);
\* the driver executes the entry point, returns a value and may raise its error
\* flag (the flag keeps the first error until it is queried).  A null function
\* pointer is undefined behaviour: the process crashes, or carries on with a
\* value nobody returned.
CallFunction ==
    /\ call.stage = "guarded"
    /\ LET function == slots[call.proc].function IN
         IF function = nullptr
         THEN /\ \E outcome \in {"crash", "garbage"}, r \in {0, 1} :
                   /\ pc' = IF outcome = "crash" THEN "crashed" ELSE pc
                   /\ call' = [call EXCEPT !.stage = "returned", !.result = r]
              /\ UNCHANGED << gl_error, label, log, executed >>
         ELSE /\ \E r \in DriverResults(function), e \in ErrorCodes :
                   /\ call' = [call EXCEPT !.stage = "returned", !.result = r]
                   /\ executed' = [entry |-> function, args |-> Forward(call.args),
                                   result |-> r]
                   /\ gl_error' = IF gl_error = GL_NO_ERROR THEN e ELSE gl_error
                   /\ label' = IF function = "glObjectLabelKHR" /\ e = GL_NO_ERROR
                               THEN Forward(call.args) ELSE label
              /\ log' = Append(log, FunctionEvent(slots[call.proc]))
              /\ pc' = pc
    /\ UNCHANGED << resolver, glGetError, slots, is_valid_, description_, cursor,
                    op, last, diagnostic >>

\* Faulty variant: the function's value dropped on the way out.
ReturnValueDropped(frame) == 0
\* The value the call operator hands back to its caller.
ReturnValue(frame) == frame.result

\* ~AutoErrorCheck(), run when operator() returns: with an error query bound,
\* query the driver (which hands over its flag and clears it) and FML_CHECK
\* the answer; then the caller has the function's value.
AutoErrorCheckDtor ==
    /\ pc \in {"ctor_description", "ready"}
    /\ call.stage = "returned"
    /\ IF call.guard.error_fn /= nullptr
       THEN LET error == gl_error IN
              /\ gl_error' = GL_NO_ERROR
              /\ log' = Append(log, ErrorFnEvent)
              /\ IF error = GL_NO_ERROR
                 THEN /\ op' = [op EXCEPT !.todo = Tail(@),
                                          !.results = Append(@, ReturnValue(call))]
                      /\ call' = NoCall
                      /\ UNCHANGED << pc, diagnostic >>
                 ELSE /\ pc' = "fatal"
                      /\ diagnostic' = CheckMessage(error, call.guard.name)
                      /\ UNCHANGED << op, call >>
       ELSE /\ op' = [op EXCEPT !.todo = Tail(@),
                                !.results = Append(@, ReturnValue(call))]
            /\ call' = NoCall
            /\ UNCHANGED << gl_error, log, pc, diagnostic >>
    /\ UNCHANGED << resolver, glGetError, slots, is_valid_, description_, cursor,
                    label, executed, last >>

----------------------------------------------------------------------------
(* The operations of ProcTableGLES and of its slots, as a caller invokes   *)
(* them on a constructed table.                                            *)

\* The slots a caller calls directly, and the slots it resets: one core slot
\* and one extension slot of those the derived operations consult.
CallTargets == {"CreateProgram", "PopDebugGroupKHR"}
ResetTargets == {"CheckFramebufferStatus", "ObjectLabelKHR"}

\* What the caller owes the table: between operations only, driver calls only
\* on a valid table (and, in the model, within the budget of calls).
Idle == pc = "ready" /\ op = NoOp /\ call.stage = "idle"
MayIssue(todo) ==
    todo = << >> \/ (is_valid_ /\ Calls(log) + Len(todo) <= MaxCalls)

\* What an operation returns once its slot calls have returned.
Result(o) ==
    CASE o.name = "IsValid" -> is_valid_
      [] o.name = "GetDescription" -> description_
      [] o.name = "IsCurrentFramebufferComplete" ->
            IF o.results = << >> THEN FALSE
            ELSE o.results[1] = GL_FRAMEBUFFER_COMPLETE
      [] o.name = "DescribeCurrentFramebuffer" ->
            IF o.results = << >> THEN "no information available" ELSE "described"
      [] o.name = "operator()" -> o.results[1]
      [] OTHER -> 0

Completed(o) ==
    [op |-> o.name, proc |-> o.proc, args |-> o.args, value |-> Result(o),
     calls |-> Len(o.results)]

\* An operation that needs no slot call returns at once; one that does is in
\* progress until its calls have returned.
Start(name, proc, args, todo) ==
    /\ Idle
    /\ MayIssue(todo)
    /\ LET o == [name |-> name, proc |-> proc, args |-> args, todo |-> todo,
                 results |-> << >>] IN
         IF todo = << >>
         THEN /\ last' = Completed(o)
              /\ op' = op
         ELSE /\ op' = o
              /\ last' = NoLast
    /\ executed' = NoExecuted
    /\ UNCHANGED << resolver, glGetError, slots, is_valid_, description_, pc, cursor,
                    call, gl_error, label, log, diagnostic >>

\* The slots of `procs` that are available, as calls with no arguments of note.
AvailableCalls(procs) ==
    [i \in 1..Len(SelectSeq(procs, LAMBDA p : IsAvailable(slots[p]))) |->
        [proc |-> SelectSeq(procs, LAMBDA p : IsAvailable(slots[p]))[i], args |-> 0]]

\* bool IsValid() const
IsValid == Start("IsValid", "", 0, << >>)

\* const GLDescription* GetDescription() const
GetDescription == Start("GetDescription", "", 0, << >>)

\* void ShaderSourceMapping(GLuint shader, const fml::Mapping& mapping) const:
\* one call through the ShaderSource slot, which the caller knows to be there.
ShaderSourceMapping ==
    /\ IsAvailable(slots["ShaderSource"])
    /\ Start("ShaderSourceMapping", "", 0, << [proc |-> "ShaderSource", args |-> 0] >>)

\* std::string DescribeCurrentFramebuffer() const: queries the attachment and
\* status slots that are available, none if none is.
DescribeCurrentFramebuffer ==
    Start("DescribeCurrentFramebuffer", "", 0,
          AvailableCalls(<< "GetFramebufferAttachmentParameteriv",
                            "CheckFramebufferStatus" >>))

\* bool IsCurrentFramebufferComplete() const: the status slot's answer compared
\* with the driver's "complete"; false when the slot is not available.
IsCurrentFramebufferComplete ==
    Start("IsCurrentFramebufferComplete", "", 0,
          AvailableCalls(<< "CheckFramebufferStatus" >>))

\* The labelling extension is there: the slot resolved and the description
\* reports the capability.
HasDebugLabels ==
    /\ IsAvailable(slots["ObjectLabelKHR"])
    /\ description_ /= << >>
    /\ description_[1].has_debug_extension

\* void SetDebugLabel(DebugResourceType type, GLint name, const std::string& label) const:
\* a call through ObjectLabelKHR when the extension is there, nothing otherwise.
\* (With the slot resolved the description is consulted, so the caller has one.)
SetDebugLabel ==
    /\ ~IsAvailable(slots["ObjectLabelKHR"]) \/ description_ /= << >>
    /\ \E type \in DebugResourceType :
         LET args == [type |-> type, name |-> 1, label |-> "label"] IN
           Start("SetDebugLabel", "", args,
                 IF HasDebugLabels
                 THEN << [proc |-> "ObjectLabelKHR", args |-> args] >>
                 ELSE << >>)

\* A call through a slot by the table's user: slot(args...), on a slot the
\* caller has found available.
SlotCall ==
    \E p \in CallTargets, a \in 0..MaxArg :
        /\ IsAvailable(slots[p])
        /\ Start("operator()", p, a, << [proc |-> p, args |-> a] >>)

\* The slot calls of the operation in progress have all returned: the
\* operation returns (the constructor stores the description it built).
Return ==
    /\ pc \in {"ctor_description", "ready"}
    /\ op.name /= "none"
    /\ op.todo = << >>
    /\ call.stage = "idle"
    /\ IF op.name = "GLDescription"
       THEN /\ description_' = << [has_debug_extension |-> op.results[1] = 1] >>
            /\ pc' = "ready"
       ELSE UNCHANGED << description_, pc >>
    /\ last' = Completed(op)
    /\ op' = NoOp
    /\ UNCHANGED << resolver, glGetError, slots, is_valid_, cursor, call, gl_error,
                    label, log, executed, diagnostic >>

\* slot.Reset(), by the table's user.
SlotReset ==
    /\ Idle
    /\ \E p \in ResetTargets :
         /\ slots' = [slots EXCEPT ![p] = Reset(@)]
         /\ last' = [NoLast EXCEPT !.op = "Reset", !.proc = p]
    /\ executed' = NoExecuted
    /\ UNCHANGED << resolver, glGetError, is_valid_, description_, pc, cursor, op,
                    call, gl_error, label, log, diagnostic >>

----------------------------------------------------------------------------

Next ==
    \/ CtorResolve
    \/ CtorValidity
    \/ CtorDescription
    \/ Invoke
    \/ CallFunction
    \/ AutoErrorCheckDtor
    \/ Return
    \/ IsValid
    \/ GetDescription
    \/ ShaderSourceMapping
    \/ DescribeCurrentFramebuffer
    \/ IsCurrentFramebufferComplete
    \/ SetDebugLabel
    \/ SlotCall
    \/ SlotReset

Spec == Init /\ [][Next]_vars

----------------------------------------------------------------------------
(* Properties.                                                             *)

Constructed == pc \notin {"ctor_resolve", "ctor_validity"}
EmptySlot == [name |-> nullptr, function |-> nullptr, error_fn |-> nullptr]
CoreResolved == \A p \in AllProcs \ ExtProcs : ("gl" \o p) \notin resolver

\* C1: once the constructor has computed the validity flag, the flag, and what
\* IsValid() returns, is true exactly when the resolver gave a non-null pointer
\* for every core symbol; what it gave for the extension symbols
\* (PushDebugGroupKHR, PopDebugGroupKHR, ObjectLabelKHR) plays no part.
C1_ValidIffCoreResolved ==
    /\ Constructed => (is_valid_ <=> CoreResolved)
    /\ last.op = "IsValid" => (last.value <=> CoreResolved)

\* IsValid() answered true on a table whose extension symbols all failed.
C1_Witness ==
    /\ last.op = "IsValid"
    /\ last.value = TRUE
    /\ \A p \in ExtProcs : ("gl" \o p) \in resolver

\* C2: when the error query run after a call through a slot with an error query
\* bound reports anything but GL_NO_ERROR, the process is in the fatal state
\* with a diagnostic that names the slot's call, the raw code and its
\* translation; in the fatal state nothing can happen any more, so no driver
\* call follows.
C2_FatalOnError ==
    /\ [][(/\ call.stage = "returned"
           /\ slots[call.proc].error_fn /= nullptr
           /\ gl_error /= GL_NO_ERROR
           /\ log' /= log)
          => (/\ pc' = "fatal"
              /\ diagnostic' = [string |-> GLErrorToString(gl_error),
                                code |-> gl_error,
                                name |-> "gl" \o call.proc])]_vars
    /\ [](pc = "fatal" => (/\ ~ENABLED Next
                           /\ diagnostic.code /= GL_NO_ERROR
                           /\ diagnostic.name = "gl" \o call.proc))

\* The process died on a call to glCreateProgram with a code that has no name.
C2_Witness ==
    /\ pc = "fatal"
    /\ diagnostic = [string |-> "Unknown", code |-> 7, name |-> "glCreateProgram"]

\* C3: in the order of events at the driver, a call through a slot with an
\* error query bound is followed at once by one error query, an error query
\* follows nothing but such a call, and while the query of the newest call is
\* still to come the call operator is in its destructor step: no other call
\* can begin before it.
C3_OneQueryAfterEachCall ==
    \A i \in DOMAIN log :
        /\ (log[i].ev = "function" /\ log[i].checked) =>
              IF i < Len(log) THEN log[i + 1].ev = "error_fn"
              ELSE call.stage = "returned"
        /\ log[i].ev = "error_fn" =>
              (i > 1 /\ log[i - 1].ev = "function" /\ log[i - 1].checked)

\* Two calls through checked slots, each followed by its error query.
C3_Witness ==
    /\ Len(log) >= 4
    /\ \A i \in {1, 3} : log[i].ev = "function" /\ log[i].checked
    /\ \A i \in {2, 4} : log[i].ev = "error_fn"

\* C4: a call through an available slot with an error query bound that came
\* back (the query reported GL_NO_ERROR) returned the value the driver's
\* function returned, and the driver's function, the one the slot is named
\* after, received the caller's arguments.
C4_TransparentOnSuccess ==
    (last.op = "operator()" /\ slots[last.proc].error_fn /= nullptr) =>
        /\ last.value = executed.result
        /\ executed.args = last.args
        /\ executed.entry = "gl" \o last.proc

\* glCreateProgram called with 1 through a checked slot returned the driver's 1.
C4_Witness ==
    /\ last.op = "operator()"
    /\ slots[last.proc].error_fn /= nullptr
    /\ last.args = 1
    /\ last.value = 1
    /\ executed.result = 1

\* C5: a call through a slot with no error query bound runs no error query
\* and does not reach the fatal state, whatever the driver's error flag holds:
\* the step after the function returned leaves the log and the flag alone and
\* hands the function's value to the caller.
C5_UncheckedCall ==
    /\ [][(call.stage = "returned" /\ slots[call.proc].error_fn = nullptr)
          => (/\ log' = log
              /\ gl_error' = gl_error
              /\ pc' = pc
              /\ call'.stage = "idle"
              /\ op'.results = Append(op.results, executed.result))]_vars
    /\ [](pc = "fatal" => slots[call.proc].error_fn /= nullptr)
    /\ []((last.op = "operator()" /\ slots[last.proc].error_fn = nullptr)
            => last.value = executed.result)

\* A call through an unchecked slot returned the driver's value with the
\* driver's error flag raised.
C5_Witness ==
    /\ last.op = "operator()"
    /\ slots[last.proc].error_fn = nullptr
    /\ gl_error /= GL_NO_ERROR
    /\ last.value = 1
    /\ pc = "ready"

\* The labelling extension is not there: the ObjectLabelKHR slot holds no
\* function, or the description reports the capability absent.
LabelsUnavailable ==
    \/ slots["ObjectLabelKHR"].function = nullptr
    \/ (description_ /= << >> /\ ~description_[1].has_debug_extension)

\* C6: SetDebugLabel with the labelling extension unavailable, for every
\* resource type: it starts no call through a slot, and the step that completes
\* it changes neither the driver's side (log of calls, error flag, label) nor
\* the table (slots, validity flag, description) nor the life of the process;
\* done again it does the same.
C6_SetDebugLabelNoOp ==
    /\ [][(Idle /\ LabelsUnavailable) =>
            (/\ op'.name /= "SetDebugLabel"
             /\ call'.stage = "idle"
             /\ last'.op = "SetDebugLabel" =>
                  (/\ last'.calls = 0
                   /\ UNCHANGED << log, gl_error, label, slots, is_valid_,
                                   description_, pc, diagnostic >>))]_vars
    /\ []((last.op = "SetDebugLabel" /\ last.calls = 0) => executed = NoExecuted)

\* A label was attached while the extension was there; after the slot's reset
\* SetDebugLabel for another resource type left the label as it was.
C6_Witness ==
    /\ last.op = "SetDebugLabel"
    /\ last.calls = 0
    /\ label /= NoLabel
    /\ last.args.type /= label.type
    /\ slots["ObjectLabelKHR"].function = nullptr

\* C7: IsCurrentFramebufferComplete() returns true exactly when it called
\* through the CheckFramebufferStatus slot and the driver's
\* glCheckFramebufferStatus answered GL_FRAMEBUFFER_COMPLETE; with the slot
\* available it does not answer without that call, and with the slot
\* unavailable it answers false at once and starts no call.
C7_FramebufferComplete ==
    /\ [](last.op = "IsCurrentFramebufferComplete" =>
            /\ last.value \in BOOLEAN
            /\ last.value <=> (/\ last.calls = 1
                               /\ executed.entry = "glCheckFramebufferStatus"
                               /\ executed.result = GL_FRAMEBUFFER_COMPLETE))
    /\ [][(Idle /\ slots["CheckFramebufferStatus"].function = nullptr) =>
            (/\ op'.name /= "IsCurrentFramebufferComplete"
             /\ last'.op = "IsCurrentFramebufferComplete" =>
                  (last'.value = FALSE /\ log' = log /\ pc' = pc))]_vars
    /\ [][(Idle /\ slots["CheckFramebufferStatus"].function /= nullptr) =>
            last'.op /= "IsCurrentFramebufferComplete"]_vars

\* The driver answered GL_FRAMEBUFFER_COMPLETE and the operation returned true.
C7_Witness ==
    /\ last.op = "IsCurrentFramebufferComplete"
    /\ last.value = TRUE
    /\ executed.result = GL_FRAMEBUFFER_COMPLETE

\* C8: a slot that was reset, whatever it held, holds no name, no function
\* and no error query, and is not available; IsAvailable() says of every slot
\* whether its function pointer is non-null; resetting a reset slot changes
\* nothing.
C8_Reset ==
    /\ last.op = "Reset" =>
          (slots[last.proc] = EmptySlot /\ ~IsAvailable(slots[last.proc]))
    /\ \A p \in AllProcs :
          /\ IsAvailable(slots[p]) <=> slots[p].function /= nullptr
          /\ Reset(slots[p]) = EmptySlot
          /\ Reset(Reset(slots[p])) = Reset(slots[p])

\* A resolved core slot with its error query bound was reset.
C8_Witness ==
    /\ last.op = "Reset"
    /\ last.proc = "CheckFramebufferStatus"
    /\ "glCheckFramebufferStatus" \notin resolver
    /\ glGetError /= nullptr
    /\ slots["CheckFramebufferStatus"] = EmptySlot

\* C9: until the constructor reaches it a slot holds its "gl"-prefixed name and
\* no function; a slot changes only when the constructor populates it, which
\* happens at the slot's turn in declaration order and so once, or when it is
\* reset, and then it becomes the empty slot; the validity flag changes only
\* in the constructor's validity step.  So no operation on a constructed table
\* other than Reset() changes a slot or the flag.
C9_SlotsWrittenOnce ==
    /\ [](\A i \in DOMAIN ProcOrder :
            (pc = "ctor_resolve" /\ i >= cursor) =>
                slots[ProcOrder[i]] =
                    [name |-> "gl" \o ProcOrder[i], function |-> nullptr,
                     error_fn |-> nullptr])
    /\ [][\A p \in AllProcs :
            slots'[p] /= slots[p] =>
                \/ (pc = "ctor_resolve" /\ ProcOrder[cursor] = p /\ cursor' = cursor + 1)
                \/ (/\ Idle
                    /\ last'.op = "Reset"
                    /\ last'.proc = p
                    /\ slots'[p] = EmptySlot)]_vars
    /\ [][is_valid_' /= is_valid_ => pc = "ctor_validity"]_vars
    /\ [][cursor' >= cursor]_vars

\* A constructed table has carried out an operation that called the driver.
C9_Witness ==
    /\ pc = "ready"
    /\ last.op = "SetDebugLabel"
    /\ last.calls = 1
    /\ \A p \in CoreProcs : slots[p].function = "gl" \o p

\* C10: the driver is called only after every declared slot was resolved and
\* the validity flag computed; the constructor's phases come in that order;
\* a table that has a description is valid, and an invalid table has none.
C10_ConstructionOrder ==
    /\ [](log /= << >> => (cursor = Len(ProcOrder) + 1 /\ Constructed))
    /\ [](call.stage /= "idle" => (cursor = Len(ProcOrder) + 1 /\ Constructed))
    /\ [](description_ /= << >> => (is_valid_ /\ pc \notin {"ctor_resolve", "ctor_validity", "ctor_description"}))
    /\ [](~is_valid_ => description_ = << >>)
    /\ [][pc' /= pc =>
            \/ (pc = "ctor_resolve" /\ pc' = "ctor_validity" /\ cursor' = Len(ProcOrder) + 1)
            \/ (pc = "ctor_validity" /\ pc' = "ctor_description")
            \/ (pc = "ctor_description" /\ pc' \in {"ready", "fatal"})
            \/ (pc = "ready" /\ pc' = "fatal")]_vars

\* A valid table with its description built.
C10_Witness ==
    /\ pc = "ready"
    /\ is_valid_
    /\ description_ /= << >>
    /\ Len(log) >= 1

====
